---- MODULE Spec2Model ----
(***************************************************************************)
(* Model of the knowledge-graph pipeline of src/knowledge_graph/main.py:   *)
(* main(), process_text_in_chunks() and process_with_llm().                *)
(*                                                                         *)
(* A collaborator response is abstracted to what extract_json_from_text    *)
(* finds in it: whether a JSON array could be parsed, and the parsed       *)
(* items.  A parsed item is a record                                       *)
(*   isdict  - the item is a JSON object (a Python dict)                   *)
(*   keys    - the keys present in the dict                                *)
(*   subject, object - strings ("" when the key is absent)                 *)
(*   predicate - the sequence of whitespace-separated tokens of the string *)
(*   chunk   - value of the key "chunk" (0 when the key is absent)         *)
(*   inferred - value of the key "inferred" (FALSE when absent)            *)
(***************************************************************************)
EXTENDS Integers, Sequences, FiniteSets, TLC

VARIABLES pc, args, config, nchunks, i, responses, reports, all_results,
          extracted, result, json_written, viz_input, stats, out

vars == <<pc, args, config, nchunks, i, responses, reports, all_results,
          extracted, result, json_written, viz_input, stats, out>>

\* Number of chunks chunk_text may cut the input into.
MaxChunks == 2

\* The prompts and limit_predicate_length cap a predicate at 3 words.
MaxPredicateWords == 3

----------------------------------------------------------------------------
\* Parsed items the collaborator may return.

NonDict ==
    [isdict |-> FALSE, keys |-> {}, subject |-> "", predicate |-> <<>>,
     object |-> "", chunk |-> 0, inferred |-> FALSE]

MissingKey ==
    [isdict |-> TRUE, keys |-> {"subject", "object"}, subject |-> "a",
     predicate |-> <<>>, object |-> "b", chunk |-> 0, inferred |-> FALSE]

ShortTriple ==
    [isdict |-> TRUE, keys |-> {"subject", "predicate", "object"},
     subject |-> "a", predicate |-> <<"is", "part", "of">>, object |-> "b",
     chunk |-> 0, inferred |-> FALSE]

\* All three keys present, but an empty subject, a four-word predicate and a
\* collaborator-supplied "chunk" key.
OddTriple ==
    [isdict |-> TRUE, keys |-> {"subject", "predicate", "object", "chunk"},
     subject |-> "", predicate |-> <<"relates", "to", "quite", "strongly">>,
     object |-> "c", chunk |-> 9, inferred |-> FALSE]

Items == {NonDict, MissingKey, ShortTriple, OddTriple}

\* Parsed arrays of zero, one or two items.
ItemLists ==
    {<<>>} \cup {<<x>> : x \in Items} \cup {<<x, y>> : x \in Items, y \in Items}

\* What one call_llm call can do: raise, return text without a parseable
\* JSON array, or return text holding a parseable array.
Responses ==
    {[raised |-> TRUE, json |-> FALSE, items |-> <<>>],
     [raised |-> FALSE, json |-> FALSE, items |-> <<>>]}
    \cup {[raised |-> FALSE, json |-> TRUE, items |-> l] : l \in ItemLists}

Msg(m, n) == [msg |-> m, n |-> n]

----------------------------------------------------------------------------
\* Helpers outside main.py.

\* extract_json_from_text: the parsed array, or None.
extract_json_from_text(response) ==
    IF response.json THEN [none |-> FALSE, items |-> response.items]
    ELSE [none |-> TRUE, items |-> <<>>]

\* limit_predicate_length: keep the first MaxPredicateWords tokens.
limit_predicate_length(predicate) ==
    IF Len(predicate) <= MaxPredicateWords THEN predicate
    ELSE SubSeq(predicate, 1, MaxPredicateWords)

----------------------------------------------------------------------------
\* process_with_llm, after call_llm has returned `response`.

IsValidItemNonEmpty(item) ==
    /\ item.isdict
    /\ {"subject", "predicate", "object"} \subseteq item.keys
    /\ item.subject # "" /\ item.predicate # <<>> /\ item.object # ""

IsValidItemSubjectObjectOnly(item) ==
    /\ item.isdict
    /\ "subject" \in item.keys
    /\ "object" \in item.keys

\* line 62
IsValidItem(item) ==
    /\ item.isdict
    /\ "subject" \in item.keys
    /\ "predicate" \in item.keys
    /\ "object" \in item.keys

\* lines 58-66: the validation loop, from item k on.
RECURSIVE ValidateLoop(_, _, _, _)
ValidateLoop(items, k, valid_triples, invalid_count) ==
    IF k > Len(items) THEN [valid |-> valid_triples, invalid |-> invalid_count]
    ELSE IF IsValidItem(items[k])
         THEN ValidateLoop(items, k + 1, Append(valid_triples, items[k]), invalid_count)
         ELSE ValidateLoop(items, k + 1, valid_triples, invalid_count + 1)

LimitPredicatesSkipped(triples) == triples

\* lines 76-77
LimitPredicates(triples) ==
    [k \in 1..Len(triples) |->
        [triples[k] EXCEPT !.predicate = limit_predicate_length(@)]]

\* lines 54-88: value is None (none = TRUE) or the list of valid triples.
process_with_llm(response) ==
    LET parsed == extract_json_from_text(response)
        v == ValidateLoop(parsed.items, 1, <<>>, 0)
        filtered == IF v.invalid > 0 THEN <<Msg("filtered_invalid", v.invalid)>>
                    ELSE <<>>
    IN  IF ~parsed.none /\ Len(parsed.items) > 0
        THEN IF Len(v.valid) = 0
             THEN [none |-> TRUE, triples |-> <<>>, parsed |-> Len(parsed.items),
                   invalid |-> v.invalid,
                   out |-> filtered \o <<Msg("no_valid_triples", 0)>>]
             ELSE [none |-> FALSE, triples |-> LimitPredicates(v.valid),
                   parsed |-> Len(parsed.items), invalid |-> v.invalid,
                   out |-> filtered]
        ELSE [none |-> TRUE, triples |-> <<>>, parsed |-> 0, invalid |-> 0,
              out |-> <<Msg("no_json", 0)>>]

----------------------------------------------------------------------------
\* process_text_in_chunks.

StampChunkZeroBased(triples, idx) ==
    [k \in 1..Len(triples) |->
        [triples[k] EXCEPT !.keys = @ \cup {"chunk"}, !.chunk = idx]]

\* lines 125-126: item["chunk"] = i + 1, idx being the 0-based loop index.
StampChunk(triples, idx) ==
    [k \in 1..Len(triples) |->
        [triples[k] EXCEPT !.keys = @ \cup {"chunk"}, !.chunk = idx + 1]]

ExtendResultsPrepending(results, chunk_results) == chunk_results \o results

\* line 129
ExtendResults(results, chunk_results) == results \o chunk_results

FailureWarningZeroBased(idx) == <<Msg("chunk_failed", idx)>>

\* line 131, idx being the 0-based loop index.
FailureWarning(idx) == <<Msg("chunk_failed", idx + 1)>>

SectionEnabledByDefault(section) == section # "off"

\* lines 136, 147: config.get(name, {}).get("enabled", False)
SectionEnabled(section) == section = "on"

\* lines 180-198
get_unique_entities(triples) ==
    {triples[k].subject : k \in {j \in 1..Len(triples) :
                                    triples[j].isdict /\ "subject" \in triples[j].keys}}
    \cup {triples[k].object : k \in {j \in 1..Len(triples) :
                                    triples[j].isdict /\ "object" \in triples[j].keys}}

----------------------------------------------------------------------------
\* Collaborators of the pipeline that live outside main.py.

\* Entities linked by a triple, direction ignored.
Linked(triples, a, b) ==
    \E k \in 1..Len(triples) :
        {triples[k].subject, triples[k].object} = {a, b}

RECURSIVE Component(_, _)
Component(triples, S) ==
    LET grown == S \cup {e \in get_unique_entities(triples) :
                            \E s \in S : Linked(triples, s, e)}
    IN  IF grown = S THEN S ELSE Component(triples, grown)

\* Connected components of the entity graph.
Communities(triples) ==
    {Component(triples, {e}) : e \in get_unique_entities(triples)}

\* Alias maps the grouping collaborator may produce: none (also the outcome of
\* a failed grouping), or "b" recognised as a variant of "a".
AliasMaps ==
    {[e \in {"", "a", "b", "c"} |-> e],
     [e \in {"", "a", "b", "c"} |-> IF e = "b" THEN "a" ELSE e]}

\* standardize_entities: rewrite every subject and object through the map.
standardize_entities(triples, alias) ==
    [k \in 1..Len(triples) |->
        [triples[k] EXCEPT !.subject = alias[@], !.object = alias[@]]]

InferredTriple(s, o) ==
    [isdict |-> TRUE, keys |-> {"subject", "predicate", "object", "inferred"},
     subject |-> s,
     predicate |-> limit_predicate_length(<<"is", "possibly", "related", "to">>),
     object |-> o, chunk |-> 0, inferred |-> TRUE]

\* infer_relationships: the lists it may return, the originals followed by at
\* most one accepted link between two distinct communities.
infer_relationships(triples) ==
    {triples}
    \cup {Append(triples, InferredTriple(s, o)) :
            <<s, o>> \in {p \in get_unique_entities(triples) \X get_unique_entities(triples) :
                            /\ p[1] # p[2]
                            /\ Component(triples, {p[1]}) # Component(triples, {p[2]})}}

\* visualize_knowledge_graph: the statistics it returns.
visualize_knowledge_graph(triples) ==
    [nodes |-> Cardinality(get_unique_entities(triples)),
     edges |-> Len(triples),
     communities |-> Cardinality(Communities(triples))]

----------------------------------------------------------------------------
Init ==
    /\ pc = "load_config"
    /\ args \in [test : BOOLEAN, input : BOOLEAN,
                 no_standardize : BOOLEAN, no_inference : BOOLEAN]
    /\ config = [loaded |-> FALSE, standardization |-> "absent", inference |-> "absent"]
    /\ nchunks = 0
    /\ i = 0
    /\ responses = <<>>
    /\ reports = <<>>
    /\ all_results = <<>>
    /\ extracted = <<>>
    /\ result = <<>>
    /\ json_written = FALSE
    /\ viz_input = <<>>
    /\ stats = [nodes |-> 0, edges |-> 0, communities |-> 0]
    /\ out = <<>>

\* main, lines 214-218: load_config returns the configuration or nothing.
LoadConfig ==
    /\ pc = "load_config"
    /\ \/ /\ out' = Append(out, Msg("config_failed", 0))
          /\ pc' = "exit"
          /\ UNCHANGED config
       \/ /\ \E std \in {"absent", "on", "off"}, inf \in {"absent", "on", "off"} :
                config' = [loaded |-> TRUE, standardization |-> std, inference |-> inf]
          /\ pc' = "dispatch"
          /\ UNCHANGED out
    /\ UNCHANGED <<args, nchunks, i, responses, reports, all_results, extracted,
                   result, json_written, viz_input, stats>>

\* main, lines 221-227: --test renders the bundled sample and returns.
TestVisualization ==
    /\ pc = "dispatch"
    /\ args.test
    /\ out' = Append(out, Msg("sample_saved", 0))
    /\ pc' = "exit"
    /\ UNCHANGED <<args, config, nchunks, i, responses, reports, all_results,
                   extracted, result, json_written, viz_input, stats>>

\* main, lines 230-233
MissingInput ==
    /\ pc = "dispatch"
    /\ ~args.test
    /\ ~args.input
    /\ out' = Append(out, Msg("input_required", 0))
    /\ pc' = "exit"
    /\ UNCHANGED <<args, config, nchunks, i, responses, reports, all_results,
                   extracted, result, json_written, viz_input, stats>>

\* main, lines 236-239
ApplyOverrides(cfg, a) ==
    [cfg EXCEPT !.standardization = IF a.no_standardize THEN "off" ELSE @,
                !.inference = IF a.no_inference THEN "off" ELSE @]

\* main, lines 235-248, and the segmentation of lines 104-113.
ReadInput ==
    /\ pc = "dispatch"
    /\ ~args.test
    /\ args.input
    /\ config' = ApplyOverrides(config, args)
    /\ \/ /\ out' = Append(out, Msg("read_error", 0))
          /\ pc' = "exit"
          /\ UNCHANGED nchunks
       \/ /\ \E n \in 1..MaxChunks : nchunks' = n
          /\ out' = Append(out, Msg("using_input", 0))
          /\ pc' = "extract"
    /\ UNCHANGED <<args, i, responses, reports, all_results, extracted, result,
                   json_written, viz_input, stats>>

\* process_text_in_chunks, lines 117-131: one iteration of the chunk loop.
\* Neither process_with_llm, process_text_in_chunks nor main catches what
\* call_llm raises.
ProcessChunk ==
    /\ pc = "extract"
    /\ i < nchunks
    /\ \E response \in Responses :
        /\ responses' = Append(responses, response)
        /\ IF response.raised
           THEN /\ pc' = "crashed"
                /\ UNCHANGED <<i, reports, all_results, out>>
           ELSE LET chunk_results == process_with_llm(response)
                IN  /\ reports' = Append(reports,
                                         [parsed |-> chunk_results.parsed,
                                          kept |-> Len(chunk_results.triples),
                                          invalid |-> chunk_results.invalid])
                    /\ IF ~chunk_results.none
                       THEN /\ all_results' =
                                 ExtendResults(all_results,
                                               StampChunk(chunk_results.triples, i))
                            /\ out' = out \o chunk_results.out
                       ELSE /\ UNCHANGED all_results
                            /\ out' = out \o chunk_results.out \o FailureWarning(i)
                    /\ i' = i + 1
                    /\ UNCHANGED pc
    /\ UNCHANGED <<args, config, nchunks, extracted, result, json_written,
                   viz_input, stats>>

\* line 133: the loop is over.  `extracted` remembers the aggregate of the
\* initial extraction; the responses, locals of the loop, are gone.
FinishExtraction ==
    /\ pc = "extract"
    /\ i = nchunks
    /\ extracted' = all_results
    /\ responses' = <<>>
    /\ out' = Append(out, Msg("extracted_total", Len(all_results)))
    /\ pc' = "standardize"
    /\ UNCHANGED <<args, config, nchunks, i, reports, all_results,
                   result, json_written, viz_input, stats>>

\* lines 136-144
Standardize ==
    /\ pc = "standardize"
    /\ IF SectionEnabled(config.standardization)
       THEN /\ \E alias \in AliasMaps :
                 all_results' = standardize_entities(all_results, alias)
            /\ out' = Append(out, Msg("phase_2", 0))
       ELSE UNCHANGED <<all_results, out>>
    /\ pc' = "infer"
    /\ UNCHANGED <<args, config, nchunks, i, responses, reports, extracted,
                   result, json_written, viz_input, stats>>

\* lines 147-178, and the assignment of line 251
InferAndReturn ==
    /\ pc = "infer"
    /\ IF SectionEnabled(config.inference)
       THEN /\ \E inferred \in infer_relationships(all_results) :
                 /\ all_results' = inferred
                 /\ result' = inferred
            /\ out' = Append(out, Msg("phase_3", 0))
       ELSE /\ result' = all_results
            /\ UNCHANGED <<all_results, out>>
    /\ pc' = "returned"
    /\ UNCHANGED <<args, config, nchunks, i, responses, reports, extracted,
                   json_written, viz_input, stats>>

SaveJsonFatal ==
    /\ pc = "returned"
    /\ Len(result) > 0
    /\ \/ /\ json_written' = TRUE
          /\ out' = Append(out, Msg("json_saved", 0))
          /\ pc' = "visualize"
       \/ /\ json_written' = FALSE
          /\ out' = Append(out, Msg("json_warning", 0))
          /\ pc' = "exit"
    /\ UNCHANGED <<args, config, nchunks, i, responses, reports, all_results,
                   extracted, result, viz_input, stats>>

\* main, lines 253-261: the write of the sibling JSON file may fail.
SaveJson ==
    /\ pc = "returned"
    /\ Len(result) > 0
    /\ \/ /\ json_written' = TRUE
          /\ out' = Append(out, Msg("json_saved", 0))
       \/ /\ json_written' = FALSE
          /\ out' = Append(out, Msg("json_warning", 0))
    /\ pc' = "visualize"
    /\ UNCHANGED <<args, config, nchunks, i, responses, reports, all_results,
                   extracted, result, viz_input, stats>>

\* main, lines 263-272
Visualize ==
    /\ pc = "visualize"
    /\ viz_input' = result
    /\ stats' = visualize_knowledge_graph(result)
    /\ out' = Append(out, Msg("statistics", Len(result)))
    /\ pc' = "exit"
    /\ UNCHANGED <<args, config, nchunks, i, responses, reports, all_results,
                   extracted, result, json_written>>

GenerationFailedSilently ==
    /\ pc = "returned"
    /\ Len(result) = 0
    /\ pc' = "exit"
    /\ UNCHANGED <<args, config, nchunks, i, responses, reports, all_results,
                   extracted, result, json_written, viz_input, stats, out>>

\* main, lines 273-274
GenerationFailed ==
    /\ pc = "returned"
    /\ Len(result) = 0
    /\ out' = Append(out, Msg("generation_failed", 0))
    /\ pc' = "exit"
    /\ UNCHANGED <<args, config, nchunks, i, responses, reports, all_results,
                   extracted, result, json_written, viz_input, stats>>

Next ==
    \/ LoadConfig
    \/ TestVisualization
    \/ MissingInput
    \/ ReadInput
    \/ ProcessChunk
    \/ FinishExtraction
    \/ Standardize
    \/ InferAndReturn
    \/ SaveJson
    \/ Visualize
    \/ GenerationFailed

Spec == Init /\ [][Next]_vars
----------------------------------------------------------------------------
\* Vocabulary of the properties.

Range(seq) == {seq[k] : k \in 1..Len(seq)}

Last(seq) == seq[Len(seq)]

RequiredKeys == {"subject", "predicate", "object"}

HasRequiredKeys(item) == item.isdict /\ RequiredKeys \subseteq item.keys

\* The items of a response that carry the three keys, in response order.
KeptItems(response) == SelectSeq(response.items, HasRequiredKeys)

\* A response with no parseable array, or with no valid item.
ChunkFails(response) == ~response.json \/ Len(KeptItems(response)) = 0

FirstWords(predicate) ==
    IF Len(predicate) > MaxPredicateWords
    THEN [k \in 1..MaxPredicateWords |-> predicate[k]]
    ELSE predicate

\* The triple a kept item of chunk n (1-based) becomes.
AsTriple(item, n) ==
    [item EXCEPT !.keys = @ \cup {"chunk"}, !.chunk = n,
                 !.predicate = FirstWords(@)]

TriplesOf(response, n) ==
    [k \in 1..Len(KeptItems(response)) |-> AsTriple(KeptItems(response)[k], n)]

\* The triples of chunks 1..n, chunk after chunk.
RECURSIVE TriplesUpTo(_, _)
TriplesUpTo(rs, n) ==
    IF n = 0 THEN <<>> ELSE TriplesUpTo(rs, n - 1) \o TriplesOf(rs[n], n)

\* The triples of the aggregate stamped with chunk n, in aggregate order.
FromChunk(n) == SelectSeq(all_results, LAMBDA t : t.chunk = n)

\* The chunk loop is running or has just been left by an exception.
InLoop == pc \in {"extract", "crashed"}

\* Chunks whose call returned a response.
Answered == {k \in 1..Len(responses) : ~responses[k].raised}

\* process_text_in_chunks has returned to main.
Returned ==
    \/ pc \in {"returned", "visualize"}
    \/ pc = "exit" /\ \E n \in 0..Len(out) : Msg("extracted_total", n) \in Range(out)

FailureMessages ==
    {"config_failed", "input_required", "read_error", "generation_failed"}

----------------------------------------------------------------------------
\* C1: a chunk whose response holds no parseable JSON array or no valid item
\* adds no triple to the aggregate and a warning naming the chunk is printed;
\* the loop goes on, and the aggregate is exactly the valid triples of the
\* other chunks.
C1_FailedChunkIsSkipped ==
    /\ pc \in {"standardize", "infer", "returned", "visualize"} =>
          Len(reports) = nchunks /\ i = nchunks
    /\ InLoop =>
           /\ \A k \in Answered :
                 ChunkFails(responses[k]) =>
                     /\ Msg("chunk_failed", k) \in Range(out)
                     /\ FromChunk(k) = <<>>
                     /\ pc = "extract" => i >= k
           /\ \A k \in Answered :
                 ~ChunkFails(responses[k]) => Msg("chunk_failed", k) \notin Range(out)
           /\ all_results = TriplesUpTo(responses, Len(responses))
           /\ pc = "extract" => Len(responses) = i /\ Len(reports) = i

C1_Witness ==
    /\ pc = "extract" /\ i = nchunks /\ nchunks = 2
    /\ ~responses[1].json
    /\ responses[2].items = <<MissingKey, ShortTriple>>
    /\ Msg("chunk_failed", 1) \in Range(out)
    /\ Len(all_results) = 1

\* C2: when call_llm raises for a chunk, the chunk is skipped and the run goes
\* on with the aggregate built so far.
C2_RaisingCallSkipsChunk ==
    \A k \in 1..Len(responses) :
        responses[k].raised => pc = "extract" /\ i >= k

\* C3: the aggregate lists the chunks in order and, within a chunk, the valid
\* items in the order of the response.
C3_AggregateOrder ==
    InLoop =>
        /\ \A p, q \in 1..Len(all_results) :
              p < q => all_results[p].chunk <= all_results[q].chunk
        /\ \A k \in Answered : FromChunk(k) = TriplesOf(responses[k], k)

C3_Witness ==
    /\ pc = "extract" /\ i = 2
    /\ responses[1].items = <<OddTriple, ShortTriple>>
    /\ responses[2].items = <<ShortTriple, OddTriple>>
    /\ Len(all_results) = 4

\* C4: an item that is no mapping or lacks one of the three keys never enters
\* the aggregate and is counted; an item with the three keys is kept; kept
\* plus discarded is the number of parsed items.
C4_ValidatorSoundness ==
    InLoop =>
        /\ \A t \in Range(all_results) : HasRequiredKeys(t)
        /\ \A k \in 1..Len(reports) :
              LET items == responses[k].items
                  bad == {j \in 1..Len(items) : ~HasRequiredKeys(items[j])}
              IN  /\ reports[k].invalid = Cardinality(bad)
                  /\ reports[k].parsed = Len(items)
                  /\ reports[k].kept + reports[k].invalid = reports[k].parsed
                  /\ Len(FromChunk(k)) = reports[k].kept
        /\ LET notices == SelectSeq(out, LAMBDA m : m.msg = "filtered_invalid")
               discards == SelectSeq(reports, LAMBDA r : r.invalid > 0)
           IN  [m \in 1..Len(notices) |-> notices[m].n]
                   = [m \in 1..Len(discards) |-> discards[m].invalid]

C4_Witness ==
    /\ pc = "extract" /\ i = 2
    /\ responses[1].items = <<NonDict, ShortTriple>>
    /\ responses[2].items = <<MissingKey, NonDict>>
    /\ reports[1].invalid = 1 /\ reports[1].kept = 1
    /\ reports[2].invalid = 2 /\ reports[2].kept = 0

\* C5 as stated: every triple of the aggregate has a non-empty subject,
\* predicate and object.
C5_AggregateHasNoEmptyField ==
    \A t \in Range(all_results) :
        t.subject # "" /\ t.predicate # <<>> /\ t.object # ""

\* C5, amended: an item is kept exactly when it is a mapping with the keys
\* subject, predicate and object, whatever their values; an item with an
\* empty subject is kept.
C5_KeptIffKeysPresent ==
    InLoop =>
        \A k \in Answered :
            \A j \in 1..Len(responses[k].items) :
                LET item == responses[k].items[j]
                IN  (item.isdict /\ RequiredKeys \subseteq item.keys)
                        <=> AsTriple(item, k) \in Range(all_results)

C5_Witness ==
    /\ pc = "extract" /\ i = 1
    /\ responses[1].items = <<OddTriple>>
    /\ Len(all_results) = 1
    /\ all_results[1].subject = ""

\* C6: every triple of the aggregate carries the 1-based index of the chunk
\* it was parsed from, whatever "chunk" the collaborator supplied.
C6_ChunkStamp ==
    InLoop =>
        /\ \A t \in Range(all_results) :
              "chunk" \in t.keys /\ t.chunk \in Answered
        /\ \A k \in Answered :
              Len(FromChunk(k)) = Len(KeptItems(responses[k]))
        /\ \A p \in 1..Len(all_results) :
              \E item \in Range(responses[all_results[p].chunk].items) :
                  /\ HasRequiredKeys(item)
                  /\ all_results[p].subject = item.subject
                  /\ all_results[p].object = item.object

C6_Witness ==
    /\ pc = "extract" /\ i = 2
    /\ responses[1].items = <<OddTriple>>
    /\ responses[2].items = <<ShortTriple>>
    /\ all_results[1].chunk = 1 /\ all_results[1].subject = ""
    /\ all_results[2].chunk = 2 /\ all_results[2].subject = "a"

\* C7: every predicate of the aggregate and of the final output has at most
\* three words; a longer predicate is cut to its first three words and the
\* triple kept, a shorter one is left as it is.
C7_PredicateCap ==
    /\ \A t \in Range(all_results) \cup Range(result) :
          Len(t.predicate) <= MaxPredicateWords
    /\ InLoop =>
          \A k \in Answered :
              /\ Len(FromChunk(k)) = Len(KeptItems(responses[k]))
              /\ \A j \in 1..Len(FromChunk(k)) :
                    LET given == KeptItems(responses[k])[j].predicate
                    IN  FromChunk(k)[j].predicate =
                            IF Len(given) > MaxPredicateWords
                            THEN <<given[1], given[2], given[3]>>
                            ELSE given

C7_Witness ==
    /\ pc = "exit"
    /\ \E t \in Range(result) : t.predicate = <<"relates", "to", "quite">>
    /\ \E t \in Range(result) : t.predicate = <<"is", "part", "of">>
    /\ \E t \in Range(result) : t.inferred

\* Standardization and inference are both disabled, by the configuration or
\* by the command line.
BothPhasesOff ==
    /\ args.no_standardize \/ config.standardization \in {"absent", "off"}
    /\ args.no_inference \/ config.inference \in {"absent", "off"}

\* C8: with standardization and inference disabled, process_text_in_chunks
\* returns the extraction aggregate unchanged, so the graph has as many
\* communities as the initial extraction.
C8_NoHiddenMerging ==
    (Returned /\ BothPhasesOff) =>
        /\ result = extracted
        /\ Cardinality(Communities(result)) = Cardinality(Communities(extracted))
        /\ Last(out).msg = "statistics" =>
              stats.communities = Cardinality(Communities(extracted))

C8_Witness ==
    /\ pc = "exit" /\ BothPhasesOff
    /\ config.standardization = "absent"
    /\ args.no_inference
    /\ Len(result) = 3
    /\ stats.communities = 2

\* C9: a failed write of the JSON file only prints a warning; the
\* visualization is still invoked with the same triples and the statistics
\* are printed.
C9_JsonFailureIsNotFatal ==
    Msg("json_warning", 0) \in Range(out) =>
        /\ Len(result) > 0
        /\ ~json_written
        /\ pc \in {"visualize", "exit"}
        /\ pc = "visualize" => Last(out) = Msg("json_warning", 0)
        /\ pc = "exit" =>
              /\ viz_input = result
              /\ stats = visualize_knowledge_graph(result)
              /\ Last(out) = Msg("statistics", Len(result))

C9_Witness ==
    /\ pc = "exit"
    /\ Msg("json_warning", 0) \in Range(out)
    /\ Last(out).msg = "statistics"
    /\ Len(viz_input) = 2

====
